---- MODULE Spec2Model ----
(***************************************************************************)
(* Voting / delegation status reconciliation of the proposal detail page.  *)
(*                                                                         *)
(* One proposal is displayed by ProposalDetailPage.  The page keeps its    *)
(* own status snapshot (votingStatus, used by SuggestionDisplay) and       *)
(* mounts a VotingPanel that keeps a second snapshot, both fetched from    *)
(* GET /proposals/{id}/voting-status.  Votes and delegations are POSTed    *)
(* from VoteModal, DelegateModal and the Apply button of a suggestion.     *)
(*                                                                         *)
(* Every action is one event of the single-threaded event loop: a user     *)
(* click, a timer callback or the continuation of an awaited request,      *)
(* followed by the re-render and the effects React runs after it.          *)
(***************************************************************************)
EXTENDS Integers, FiniteSets, Sequences, TLC

\* ------------------------------------------------------------------ bounds

\* Status requests one surface may have outstanding at once.
MaxInFlight == 2

\* The proposal's options are numbered 1..NumOptions.
NumOptions == 1

\* ---------------------------------------------------------------- universe

Options == 1..NumOptions

NoUser == "-"

\* Members a delegation can target.
OrgUsers == {"u1"}

Modals == {"voteModal", "delegateModal"}

\* The suggestions GET /proposals/{id}/suggestions returned for the proposal.
Suggestions ==
    { [suggestion_id |-> "s1", suggestion_type |-> "vote_option",
       target_option_number |-> 1, target_user |-> NoUser],
      [suggestion_id |-> "s2", suggestion_type |-> "delegate",
       target_option_number |-> 0, target_user |-> "u1"] }

SuggestionIds == { s.suggestion_id : s \in Suggestions }

\* A status snapshot that is unknown / absent (null in the source).
Null == [unknown |-> TRUE]

\* Proposal ids the route can name; NoProposal is proposal === null.
Proposals == {"A", "B"}

NoProposal == "none"

\* A setTimeout handle: never set, pending, or cleared by clearTimeout.
NoTimer == [state |-> "idle", pid |-> NoProposal]

\* ProposalDetailPage's useState initial values.
FreshPage ==
    [proposal |-> NoProposal, loading |-> TRUE, error |-> FALSE,
     notFound |-> FALSE, suggestions |-> NoProposal, votingStatus |-> Null,
     timer |-> NoTimer]

\* No VotingPanel has been mounted yet.
NoPanel ==
    [mounted |-> FALSE, proposal |-> NoProposal, votingStatus |-> Null,
     statusLoading |-> TRUE, deadlinePassed |-> FALSE, timer |-> NoTimer]

\* HTTP outcomes of a request; Thrown stands for a rejected fetch or an
\* unreadable body.
Thrown == 0

VARIABLES
    \* environment: clocks and the server's record of the user
    clientExpired,      \* the browser clock is past voting_deadline
    srvExpired,         \* the server clock is past voting_deadline
    srvVote,            \* option the user voted for, 0 if none
    srvDeleg,           \* member the user delegated to, NoUser if none
    srvCooldown,        \* the server's cooldown window is open
    \* VotingPanel
    isExpired,          \* prop computed by the page's last render
    votingStatus,       \* snapshot of the panel, or Null
    statusLoading,
    deadlinePassed,
    panelTimer,         \* the panel's 61 s cooldown timer is armed
    panelInFlight,      \* status requests of the panel outstanding
    panelLatestPending, \* the last initiated one is among them
    panelSnapFromLatest,\* votingStatus was written by the last initiated one
    \* ProposalDetailPage and SuggestionDisplay
    pageStatus,         \* user_status of the page's snapshot, or Null
    pageTimer,
    pageInFlight,       \* status requests of the page outstanding
    votingActive,       \* isVotingActive() at SuggestionDisplay's last render
    applyingStates,     \* suggestion id -> Apply in progress
    \* VoteModal / DelegateModal
    showModal,          \* showVoteModal / showDelegateModal
    submitting,
    \* network
    posts,              \* vote/delegate POSTs outstanding
    \* navigation between proposals (route /proposals/:id)
    nav                 \* "idle", or a record with fields
                        \*   route    the :id the page instance is on, "gone"
                        \*            once it is unmounted
                        \*   page     ProposalDetailPage state of that instance
                        \*   panel    the VotingPanel instance last mounted
                        \*   requests GET requests outstanding, with sender
    ,
    \* one modal form or one Apply at work, seen from inside
    form,               \* "idle", or the record described at FormInit
    \* one evaluation of a pure function of the page
    eval                \* "idle", or a record [fn, args, result]

envVars == <<clientExpired, srvExpired, srvVote, srvDeleg, srvCooldown>>

panelVars == <<isExpired, votingStatus, statusLoading, deadlinePassed, panelTimer,
               panelInFlight, panelLatestPending, panelSnapFromLatest>>

pageVars == <<pageStatus, pageTimer, pageInFlight, votingActive, applyingStates>>

modalVars == <<showModal, submitting>>

navVars == <<nav>>

\* The navigation state is left alone: one proposal, loaded, is modelled by
\* the other variables.
NavIdle == nav = "idle"

sideVars == <<form, eval>>

\* The forms' inner state and the function evaluations are left alone.
SideIdle == form = "idle" /\ eval = "idle"

vars == <<envVars, panelVars, pageVars, modalVars, posts, navVars, sideVars>>

\* ------------------------------------------------------------------ server

\* The body of GET /proposals/{id}/voting-status at this moment.
ServerStatus ==
    [is_active       |-> ~srvExpired,
     has_voted       |-> srvVote # 0,
     voted_option    |-> srvVote,
     has_delegated   |-> srvDeleg # NoUser,
     delegate_info   |-> srvDeleg,
     cooldown_active |-> srvCooldown]

\* The part of the response the page's snapshot is read for
\* (votingStatus?.user_status).
UserStatusOf(data) ==
    [has_voted       |-> data.has_voted,
     voted_option    |-> data.voted_option,
     has_delegated   |-> data.has_delegated,
     delegate_info   |-> data.delegate_info,
     cooldown_active |-> data.cooldown_active]

\* The status the server answers a vote/delegate POST with.
ServerVerdict(p) ==
    IF srvExpired THEN 410
    ELSE IF srvCooldown THEN 429
    ELSE IF p.kind = "vote" /\ p.option_number \notin Options THEN 400
    ELSE IF p.kind = "delegate" /\ p.target_user \notin OrgUsers THEN 404
    ELSE 200

\* What a POST may come back as: the server's verdict, a server error, or
\* a failed request.
PostOutcomes(p) == {ServerVerdict(p), 500, Thrown}

\* ------------------------------------------------- derived view (renders)

\* votingStatus?.user_status?.cooldown_active, undefined read as false.
CooldownOf(vs) == vs # Null /\ vs.cooldown_active

\* A variant of DeadlineEffect in which the isExpired input wins over the
\* snapshot.
DeadlineEffectExpiredWins(vs, ie, dp) ==
    IF ie THEN TRUE
    ELSE IF vs # Null THEN ~vs.is_active
    ELSE dp

\* VotingPanel: the deadline effect, run after a render in which
\* votingStatus or isExpired changed.
DeadlineEffect(vs, ie, dp) ==
    IF vs # Null THEN ~vs.is_active
    ELSE IF ie THEN TRUE
    ELSE dp

\* VotingPanel: the cooldown effect.  React re-runs it (cleanup, then body)
\* only when a dependency changed; otherwise the timer is left as it is.
PanelTimerEffect(cd0, dp0, cd1, dp1, timer) ==
    IF <<cd0, dp0>> # <<cd1, dp1>> THEN cd1 /\ ~dp1 ELSE timer

\* ProposalDetailPage: the cooldown effect; proposalExpired is read from the
\* clock when the effect runs.
PageTimerEffect(cd0, cd1, expiredNow, timer) ==
    IF cd0 # cd1 THEN cd1 /\ ~expiredNow ELSE timer

\* A variant of isButtonDisabled that looks at the expired verdict only.
isButtonDisabledNoCooldown == deadlinePassed

\* VotingPanel.isButtonDisabled
isButtonDisabled ==
    deadlinePassed \/ (CooldownOf(votingStatus) /\ ~deadlinePassed)

\* The Vote Directly / Delegate Vote buttons are rendered only in the
\* non-expired branch, both with disabled={isButtonDisabled}.
VoteControlEnabled == ~isExpired /\ ~isButtonDisabled

DelegateControlEnabled == ~isExpired /\ ~isButtonDisabled

\* A variant of isSuggestionApplied that treats a missing user status as a
\* match.
isSuggestionAppliedFailOpen(s, userVotingStatus) ==
    IF userVotingStatus = Null THEN TRUE
    ELSE IF s.suggestion_type = "vote_option"
         THEN userVotingStatus.has_voted
              /\ userVotingStatus.voted_option = s.target_option_number
    ELSE userVotingStatus.has_delegated
         /\ userVotingStatus.delegate_info = s.target_user

\* The VotingStatus component the panel renders with
\* status={votingStatus?.user_status || null} loading={statusLoading}.
VotingStatusView(status, loading) ==
    IF loading THEN "loading"
    ELSE IF status = Null THEN "unable_to_load"
    ELSE IF status.has_voted /\ status.voted_option # 0 THEN "voted"
    ELSE IF status.has_delegated /\ status.delegate_info # NoUser THEN "delegated"
    ELSE "not_participated"

\* A variant of isSuggestionApplied that looks at has_voted / has_delegated
\* only, not at what was voted for or who was delegated to.
isSuggestionAppliedAnyTarget(s, userVotingStatus) ==
    IF userVotingStatus = Null THEN FALSE
    ELSE IF s.suggestion_type = "vote_option" THEN userVotingStatus.has_voted
    ELSE userVotingStatus.has_delegated

\* SuggestionDisplay.isSuggestionApplied
isSuggestionApplied(s, userVotingStatus) ==
    IF userVotingStatus = Null THEN FALSE
    ELSE IF s.suggestion_type = "vote_option"
         THEN userVotingStatus.has_voted
              /\ userVotingStatus.voted_option = s.target_option_number
    ELSE IF s.suggestion_type = "delegate"
         THEN userVotingStatus.has_delegated
              /\ userVotingStatus.delegate_info = s.target_user
    ELSE FALSE

\* The page renders SuggestionDisplay only while its own classifier says
\* the proposal is not expired.
SuggestionPanelShown == ~isExpired

\* A variant of ApplyDisabled that does not look at the cooldown.
ApplyDisabledNoCooldown(s) ==
    LET isApplying == applyingStates[s.suggestion_id]
        isApplied == isSuggestionApplied(s, pageStatus)
    IN  isApplying \/ isApplied \/ ~votingActive

\* disabled= of a suggestion's Apply button.
ApplyDisabled(s) ==
    LET isApplying == applyingStates[s.suggestion_id]
        isApplied == isSuggestionApplied(s, pageStatus)
        cooldownActive == CooldownOf(pageStatus)
    IN  isApplying \/ isApplied \/ ~votingActive \/ (cooldownActive /\ ~isApplied)

ApplyControlEnabled(s) == SuggestionPanelShown /\ ~ApplyDisabled(s)

\* The modals are rendered by the panel's non-expired branch.  A modal is a
\* fixed full-viewport overlay: while one is shown the controls behind it
\* cannot be clicked.
ModalShown(m) == showModal[m] /\ ~isExpired

NoModal == \A m \in Modals : ~ModalShown(m)

\* The Vote Directly / Delegate Vote buttons are in the panel's output
\* (enabled or disabled): only the non-expired branch has them.
PanelControlsRendered == ~isExpired

\* What the panel shows of the results, for a proposal with or without
\* vote_results: the expired branch only.
ResultsView(has_vote_results) ==
    IF isExpired
    THEN IF has_vote_results THEN "results" ELSE "results_pending"
    ELSE "none"

\* Both branches render VotingStatus ("Your Participation" in the expired
\* one); it has no control.
ParticipationRendered == TRUE

KindOf(ep) ==
    IF ep = "voteModal" THEN "vote"
    ELSE IF ep = "delegateModal" THEN "delegate"
    ELSE LET s == CHOOSE x \in Suggestions : x.suggestion_id = ep
         IN  IF s.suggestion_type = "delegate" THEN "delegate" ELSE "vote"

Post(ep, opt, user) ==
    [ep |-> ep, kind |-> KindOf(ep), option_number |-> opt, target_user |-> user]

\* -------------------------------------------------------------------- Init

\* The proposal has been loaded and rendered, its suggestions fetched; the
\* VotingPanel has mounted and its mount effect has called loadVotingStatus;
\* the page's loadSuggestionsAndStatus has reached loadVotingStatus.  The
\* user has not acted on the proposal yet.
Init ==
    /\ clientExpired \in BOOLEAN
    /\ srvExpired \in BOOLEAN
    /\ srvVote = 0
    /\ srvDeleg = NoUser
    /\ srvCooldown = FALSE
    /\ isExpired = clientExpired
    /\ votingStatus = Null
    /\ statusLoading = TRUE
    /\ deadlinePassed = isExpired
    /\ panelTimer = FALSE
    /\ panelInFlight = 1
    /\ panelLatestPending = TRUE
    /\ panelSnapFromLatest = FALSE
    /\ pageStatus = Null
    /\ pageTimer = FALSE
    /\ pageInFlight = 1
    /\ votingActive = ~clientExpired
    /\ applyingStates = [i \in SuggestionIds |-> FALSE]
    /\ showModal = [m \in Modals |-> FALSE]
    /\ submitting = [m \in Modals |-> FALSE]
    /\ posts = {}
    /\ NavIdle
    /\ SideIdle

\* ------------------------------------------------------------- environment

\* The browser clock passes voting_deadline.  Nothing re-renders.
ClientClockPasses ==
    /\ ~clientExpired
    /\ clientExpired' = TRUE
    /\ UNCHANGED <<srvExpired, srvVote, srvDeleg, srvCooldown>>
    /\ UNCHANGED <<navVars, sideVars, panelVars, pageVars, modalVars, posts>>

\* The server clock passes voting_deadline.
ServerClockPasses ==
    /\ ~srvExpired
    /\ srvExpired' = TRUE
    /\ UNCHANGED <<clientExpired, srvVote, srvDeleg, srvCooldown>>
    /\ UNCHANGED <<navVars, sideVars, panelVars, pageVars, modalVars, posts>>

\* The server's 60 s cooldown window ends.
CooldownEnds ==
    /\ srvCooldown
    /\ srvCooldown' = FALSE
    /\ UNCHANGED <<clientExpired, srvExpired, srvVote, srvDeleg>>
    /\ UNCHANGED <<navVars, sideVars, panelVars, pageVars, modalVars, posts>>

\* ------------------------------------------------------------- VotingPanel

\* loadVotingStatus up to its await: setStatusLoading(true), request sent.
PanelStartRefresh ==
    /\ panelInFlight < MaxInFlight
    /\ statusLoading' = TRUE
    /\ panelInFlight' = panelInFlight + 1
    /\ panelLatestPending' = TRUE
    /\ panelSnapFromLatest' = FALSE

\* The panel re-rendered with snapshot vs and prop ie: deadline effect, then
\* cooldown effect on the settled values.
PanelSettle(vs, ie) ==
    LET dp == DeadlineEffect(vs, ie, deadlinePassed) IN
    /\ votingStatus' = vs
    /\ isExpired' = ie
    /\ deadlinePassed' = dp
    /\ panelTimer' = PanelTimerEffect(CooldownOf(votingStatus), deadlinePassed,
                                      CooldownOf(vs), dp, panelTimer)

\* A variant of StatusResult that keeps the previous snapshot when the
\* request fails.
StatusResultKeepsOld(outcome) ==
    IF outcome = 200
    THEN [is_active       |-> ServerStatus.is_active,
          cooldown_active |-> ServerStatus.cooldown_active]
    ELSE votingStatus

\* What the panel's loadVotingStatus stores for a response: of the body,
\* the fields the panel's logic reads (the rest is only displayed).
StatusResult(outcome) ==
    IF outcome = 200
    THEN [is_active       |-> ServerStatus.is_active,
          cooldown_active |-> ServerStatus.cooldown_active]
    ELSE Null

\* loadVotingStatus after its await, for the last initiated request
\* (latest) or an earlier one still outstanding.
PanelStatusResponse(latest, outcome) ==
    /\ panelInFlight > 0
    /\ IF latest THEN panelLatestPending
       ELSE panelInFlight > (IF panelLatestPending THEN 1 ELSE 0)
    /\ PanelSettle(StatusResult(outcome), isExpired)
    /\ statusLoading' = FALSE
    /\ panelInFlight' = panelInFlight - 1
    /\ panelLatestPending' = (panelLatestPending /\ ~latest)
    /\ panelSnapFromLatest' = latest
    /\ UNCHANGED <<navVars, sideVars, envVars, pageVars, modalVars, posts>>

\* A variant of PanelTimerFires that also takes the cooldown for ended in
\* the stored snapshot.
PanelTimerFiresClearsFlag ==
    /\ panelTimer
    /\ panelTimer' = FALSE
    /\ PanelStartRefresh
    /\ votingStatus' = IF votingStatus = Null THEN Null
                       ELSE [votingStatus EXCEPT !.cooldown_active = FALSE]
    /\ UNCHANGED <<isExpired, deadlinePassed>>
    /\ UNCHANGED <<navVars, sideVars, envVars, pageVars, modalVars, posts>>

\* The cooldown timer's callback.
PanelTimerFires ==
    /\ panelTimer
    /\ panelTimer' = FALSE
    /\ PanelStartRefresh
    /\ UNCHANGED <<isExpired, votingStatus, deadlinePassed>>
    /\ UNCHANGED <<navVars, sideVars, envVars, pageVars, modalVars, posts>>

\* handleVoteClick / handleDelegateClick: a new modal instance mounts.
OpenModal(m) ==
    /\ NoModal
    /\ IF m = "voteModal" THEN VoteControlEnabled ELSE DelegateControlEnabled
    /\ showModal' = [showModal EXCEPT ![m] = TRUE]
    /\ submitting' = [submitting EXCEPT ![m] = FALSE]
    /\ UNCHANGED <<navVars, sideVars, envVars, panelVars, pageVars, posts>>

\* ------------------------------------------------ VoteModal, DelegateModal

\* What the form lets the user submit: any listed option (VoteModal), a
\* name found in the organization's user list (DelegateModal.validation).
CanSubmit(m, opt, user) ==
    IF m = "voteModal" THEN opt \in Options /\ user = NoUser
    ELSE opt = 0 /\ user \in OrgUsers

\* handleSubmit up to its await.
Submit(m, opt, user) ==
    /\ ModalShown(m)
    /\ ~submitting[m]
    /\ CanSubmit(m, opt, user)
    /\ submitting' = [submitting EXCEPT ![m] = TRUE]
    /\ posts' = posts \cup {Post(m, opt, user)}
    /\ UNCHANGED showModal
    /\ UNCHANGED <<navVars, sideVars, envVars, panelVars, pageVars>>

\* handleClose and, after its 300 ms animation, onClose: the panel hides
\* the modal.  Cancel and the close button are disabled while submitting.
\* The backdrop is not; the user is taken to leave the backdrop alone while
\* a submission is outstanding, so a modal is dismissed only while idle.
CloseModal(m) ==
    /\ ModalShown(m)
    /\ ~submitting[m]
    /\ showModal' = [showModal EXCEPT ![m] = FALSE]
    /\ UNCHANGED submitting
    /\ UNCHANGED <<navVars, sideVars, envVars, panelVars, pageVars, posts>>

\* ------------------------------------ ProposalDetailPage, SuggestionDisplay

\* The page's loadVotingStatus up to its await.
PageStartRefresh ==
    /\ pageInFlight < MaxInFlight
    /\ pageInFlight' = pageInFlight + 1

\* What the page's loadVotingStatus stores for a response.
PageStatusResult(outcome) ==
    IF outcome = 200 THEN UserStatusOf(ServerStatus) ELSE Null

\* The page's loadVotingStatus after its await.  A changed votingStatus
\* re-renders the page: the classifier is read again and SuggestionDisplay
\* and VotingPanel get new props.
PageStatusResponse(outcome) ==
    LET ps == PageStatusResult(outcome)
        rerender == ~(pageStatus = Null /\ ps = Null)
    IN
    /\ pageInFlight > 0
    /\ pageStatus' = ps
    /\ pageTimer' = PageTimerEffect(CooldownOf(pageStatus), CooldownOf(ps),
                                    clientExpired, pageTimer)
    /\ votingActive' = IF rerender THEN ~clientExpired ELSE votingActive
    /\ pageInFlight' = pageInFlight - 1
    /\ PanelSettle(votingStatus, IF rerender THEN clientExpired ELSE isExpired)
    /\ UNCHANGED <<statusLoading, panelInFlight, panelLatestPending,
                   panelSnapFromLatest>>
    /\ UNCHANGED <<navVars, sideVars, envVars, applyingStates, modalVars, posts>>

\* The page's cooldown timer's callback.
PageTimerFires ==
    /\ pageTimer
    /\ pageTimer' = FALSE
    /\ PageStartRefresh
    /\ UNCHANGED <<pageStatus, votingActive, applyingStates>>
    /\ UNCHANGED <<navVars, sideVars, envVars, panelVars, modalVars, posts>>

\* handleApplySuggestion up to its await.
ApplyClick(s) ==
    /\ NoModal
    /\ ApplyControlEnabled(s)
    /\ applyingStates' = [applyingStates EXCEPT ![s.suggestion_id] = TRUE]
    /\ votingActive' = ~clientExpired
    /\ posts' = posts \cup
                {Post(s.suggestion_id, s.target_option_number, s.target_user)}
    /\ UNCHANGED <<pageStatus, pageTimer, pageInFlight>>
    /\ UNCHANGED <<navVars, sideVars, envVars, panelVars, modalVars>>

\* ------------------------------------------------------- answers to a POST

\* What a successful POST does to the server's record of the user.
ServerApplies(p, st) ==
    IF st # 200 THEN UNCHANGED <<srvVote, srvDeleg, srvCooldown>>
    ELSE /\ srvVote' = IF p.kind = "vote" THEN p.option_number ELSE 0
         /\ srvDeleg' = IF p.kind = "delegate" THEN p.target_user ELSE NoUser
         /\ srvCooldown' = TRUE

\* VotingPanel.handleModalSuccess: the panel refreshes, then the page's
\* onVotingStatusChange refreshes the page's snapshot.
handleModalSuccess ==
    /\ PanelStartRefresh
    /\ PageStartRefresh

\* handleSubmit after its await (VoteModal, DelegateModal).  On success
\* onSuccess() and handleClose(), whose onClose hides the modal.
ModalAnswer(p, st) ==
    /\ submitting' = [submitting EXCEPT ![p.ep] = FALSE]
    /\ IF st = 200
       THEN /\ handleModalSuccess
            /\ showModal' = [showModal EXCEPT ![p.ep] = FALSE]
       ELSE UNCHANGED <<showModal, statusLoading, panelInFlight,
                        panelLatestPending, panelSnapFromLatest, pageInFlight>>
    /\ UNCHANGED <<isExpired, votingStatus, deadlinePassed, panelTimer>>
    /\ UNCHANGED <<pageStatus, pageTimer, votingActive, applyingStates>>

\* handleApplySuggestion after its await: an alert, then the finally block.
ApplyAnswer(p, st) ==
    /\ applyingStates' = [applyingStates EXCEPT ![p.ep] = FALSE]
    /\ votingActive' = IF SuggestionPanelShown THEN ~clientExpired ELSE votingActive
    /\ UNCHANGED <<pageStatus, pageTimer, pageInFlight>>
    /\ UNCHANGED <<panelVars, modalVars>>

PostResponse(p, st) ==
    /\ p \in posts
    /\ st \in PostOutcomes(p)
    /\ ServerApplies(p, st)
    /\ IF p.ep \in Modals THEN ModalAnswer(p, st) ELSE ApplyAnswer(p, st)
    /\ posts' = posts \ {p}
    /\ UNCHANGED <<navVars, sideVars, clientExpired, srvExpired>>

\* -------------------------------------------------------------------- Next

StatusOutcomes == {200, 500, Thrown}

PostStatuses == {200, 400, 404, 410, 429, 500, Thrown}

Next ==
    \/ ClientClockPasses
    \/ ServerClockPasses
    \/ CooldownEnds
    \/ \E latest \in BOOLEAN, o \in StatusOutcomes : PanelStatusResponse(latest, o)
    \/ \E o \in StatusOutcomes : PageStatusResponse(o)
    \/ PanelTimerFires
    \/ PageTimerFires
    \/ \E m \in Modals : OpenModal(m)
    \/ \E m \in Modals, opt \in 0..NumOptions, user \in {NoUser} \cup OrgUsers :
          Submit(m, opt, user)
    \/ \E m \in Modals : CloseModal(m)
    \/ \E s \in Suggestions : ApplyClick(s)
    \/ \E p \in posts, st \in PostStatuses : PostResponse(p, st)

Spec == Init /\ [][Next]_vars

\* ------------------------------------------------ a live, healthy session

\* The proposal stays open for the whole session (neither clock reaches the
\* deadline) and every status request is answered 200.  Everything the
\* program has scheduled eventually happens: armed timers fire, outstanding
\* requests are answered, the server's cooldown window runs out.  What the
\* user does is left open.
FairInit == Init /\ ~clientExpired /\ ~srvExpired

PanelStatusArrives == \E latest \in BOOLEAN : PanelStatusResponse(latest, 200)

PageStatusArrives == PageStatusResponse(200)

PostAnswered == \E p \in posts, st \in PostStatuses : PostResponse(p, st)

UserActs ==
    \/ \E m \in Modals : OpenModal(m)
    \/ \E m \in Modals, opt \in 0..NumOptions, user \in {NoUser} \cup OrgUsers :
          Submit(m, opt, user)
    \/ \E m \in Modals : CloseModal(m)
    \/ \E s \in Suggestions : ApplyClick(s)

FairNext ==
    \/ CooldownEnds
    \/ PanelStatusArrives
    \/ PageStatusArrives
    \/ PanelTimerFires
    \/ PageTimerFires
    \/ PostAnswered
    \/ UserActs

Fairness ==
    /\ WF_vars(CooldownEnds)
    /\ WF_vars(PanelStatusArrives)
    /\ WF_vars(PageStatusArrives)
    /\ WF_vars(PanelTimerFires)
    /\ WF_vars(PageTimerFires)
    /\ WF_vars(PostAnswered)

FairSpec == FairInit /\ [][FairNext]_vars /\ Fairness

\* ------------------------------------------- refreshes of a returning user

\* The page is loaded by a user who may have voted or delegated before, with
\* or without a cooldown still running; from there only the status requests,
\* the cooldown timers and the environment move (the user watches).
RefreshInit ==
    /\ clientExpired \in BOOLEAN
    /\ srvExpired \in BOOLEAN
    /\ srvVote \in 0..NumOptions
    /\ srvDeleg \in {NoUser} \cup OrgUsers
    /\ ~(srvVote # 0 /\ srvDeleg # NoUser)
    /\ srvCooldown \in BOOLEAN
    /\ isExpired = clientExpired
    /\ votingStatus = Null
    /\ statusLoading = TRUE
    /\ deadlinePassed = isExpired
    /\ panelTimer = FALSE
    /\ panelInFlight = 1
    /\ panelLatestPending = TRUE
    /\ panelSnapFromLatest = FALSE
    /\ pageStatus = Null
    /\ pageTimer = FALSE
    /\ pageInFlight = 1
    /\ votingActive = ~clientExpired
    /\ applyingStates = [i \in SuggestionIds |-> FALSE]
    /\ showModal = [m \in Modals |-> FALSE]
    /\ submitting = [m \in Modals |-> FALSE]
    /\ posts = {}
    /\ NavIdle
    /\ SideIdle

RefreshNext ==
    \/ ClientClockPasses
    \/ ServerClockPasses
    \/ CooldownEnds
    \/ \E latest \in BOOLEAN, o \in StatusOutcomes : PanelStatusResponse(latest, o)
    \/ \E o \in StatusOutcomes : PageStatusResponse(o)
    \/ PanelTimerFires
    \/ PageTimerFires

RefreshSpec == RefreshInit /\ [][RefreshNext]_vars

\* ------------------------------------------ navigation between proposals

\* One ProposalDetailPage instance serves the route /proposals/:id; a change
\* of :id re-runs its load effect, leaving the route unmounts it.  The
\* proposals are open by the browser clock; the user only navigates.

\* Outstanding GET requests a page may have at once.
MaxNavRequests == 2

Req(kind, surface, pid) ==
    [kind |-> kind, surface |-> surface, pid |-> pid, live |-> TRUE]

\* The senders in surfaces are unmounted: what they still have outstanding
\* will be answered to an instance that is gone (which proposal it asked
\* about no longer matters then).
Orphaned(rs, surfaces) ==
    { IF r.surface \in surfaces
      THEN [r EXCEPT !.live = FALSE, !.pid = NoProposal]
      ELSE r : r \in rs }

\* A variant of Delivered that lets every answer through.
DeliveredAlways(r) == TRUE

\* A state setter called after an await takes effect only while the
\* instance whose state it sets is mounted.
Delivered(r) == r.live

\* A variant of ClearedTimer that leaves the timer pending.
LeakedTimer(timer) == timer

\* The effect cleanup, () => clearTimeout(cooldownTimer).
ClearedTimer(timer) ==
    IF timer.state = "armed" THEN [state |-> "cleared", pid |-> NoProposal] ELSE timer

ArmedFor(pid) == [state |-> "armed", pid |-> pid]

\* The page renders its main view (not the spinner, the error view, the
\* Not Found view or nothing).
MainShown(route, page) ==
    /\ route # "gone"
    /\ ~page.loading
    /\ ~page.error
    /\ ~page.notFound
    /\ page.proposal # NoProposal

\* The page's cooldown effect, re-run because cooldown_active or proposal
\* changed: cleanup, then a timer for the proposal now in state.
NavPageTimerEffect(rerun, page) ==
    IF ~rerun THEN page.timer
    ELSE IF CooldownOf(page.votingStatus) /\ page.proposal # NoProposal
         THEN ArmedFor(page.proposal)
         ELSE NoTimer

\* The VotingPanel after the page rendered (route, page): mounted afresh,
\* given a new proposal prop, unmounted, or left as it is.
PanelAfterRender(route, page, panel) ==
    IF MainShown(route, page)
    THEN IF ~panel.mounted
         THEN [mounted |-> TRUE, proposal |-> page.proposal,
               votingStatus |-> Null, statusLoading |-> TRUE,
               deadlinePassed |-> FALSE, timer |-> NoTimer]
         ELSE IF panel.proposal # page.proposal
         THEN [panel EXCEPT !.proposal = page.proposal, !.statusLoading = TRUE]
         ELSE panel
    ELSE IF panel.mounted
         THEN [panel EXCEPT !.mounted = FALSE, !.timer = ClearedTimer(panel.timer)]
         ELSE panel

\* The requests after that render: the panel's loadVotingStatus on mount or
\* on a new proposal_id; on unmount its outstanding ones lose their sender.
RequestsAfterRender(route, page, panel, rs) ==
    IF MainShown(route, page)
    THEN IF ~panel.mounted \/ panel.proposal # page.proposal
         THEN rs \cup {Req("status", "panel", page.proposal)}
         ELSE rs
    ELSE IF panel.mounted THEN Orphaned(rs, {"panel"}) ELSE rs

\* The page is entered on proposal p: new instances of page and panel, the
\* page's load effect run.
NavEnter(p) ==
    /\ nav.route = "gone"
    /\ Cardinality(nav.requests) < MaxNavRequests
    /\ nav' = [route |-> p, page |-> FreshPage, panel |-> NoPanel,
               requests |-> nav.requests \cup {Req("proposal", "page", p)}]
    /\ UNCHANGED <<sideVars, envVars, panelVars, pageVars, modalVars, posts>>

\* :id changes to p on the same instance: loadProposal sets loading and
\* clears error before its await; the spinner replaces the main view.
NavNavigate(p) ==
    LET page == [nav.page EXCEPT !.loading = TRUE, !.error = FALSE] IN
    /\ nav.route \notin {"gone", p}
    /\ Cardinality(nav.requests) < MaxNavRequests
    /\ nav' = [route |-> p, page |-> page,
               panel |-> PanelAfterRender(p, page, nav.panel),
               requests |-> RequestsAfterRender(p, page, nav.panel, nav.requests)
                              \cup {Req("proposal", "page", p)}]
    /\ UNCHANGED <<sideVars, envVars, panelVars, pageVars, modalVars, posts>>

\* The page is left for another route: page and panel unmount, the effect
\* cleanups run.
NavLeave ==
    /\ nav.route # "gone"
    /\ nav' = [route |-> "gone",
               page |-> [nav.page EXCEPT !.timer = ClearedTimer(nav.page.timer)],
               panel |-> [nav.panel EXCEPT !.mounted = FALSE,
                                           !.timer = ClearedTimer(nav.panel.timer)],
               requests |-> Orphaned(nav.requests, {"page", "panel"})]
    /\ UNCHANGED <<sideVars, envVars, panelVars, pageVars, modalVars, posts>>

\* loadProposal after its await.  A new proposal object re-runs the page's
\* [proposal] effects: loadSuggestionsAndStatus and the cooldown effect.
NavProposalResponse(r, status) ==
    LET page1 == IF status = 200
                 THEN [nav.page EXCEPT !.proposal = r.pid, !.loading = FALSE]
                 ELSE IF status = 404
                 THEN [nav.page EXCEPT !.notFound = TRUE, !.loading = FALSE]
                 ELSE [nav.page EXCEPT !.error = TRUE, !.loading = FALSE]
        page2 == [page1 EXCEPT !.timer = NavPageTimerEffect(status = 200, page1)]
        rest  == nav.requests \ {r}
    IN
    /\ r \in nav.requests
    /\ r.kind = "proposal"
    /\ nav' = IF ~Delivered(r) THEN [nav EXCEPT !.requests = rest]
              ELSE [route |-> nav.route, page |-> page2,
                    panel |-> PanelAfterRender(nav.route, page2, nav.panel),
                    requests |->
                        RequestsAfterRender(nav.route, page2, nav.panel, rest)
                          \cup (IF status = 200
                                THEN {Req("suggestions", "page", r.pid)}
                                ELSE {})]
    /\ UNCHANGED <<sideVars, envVars, panelVars, pageVars, modalVars, posts>>

\* loadSuggestionsAndStatus after the suggestions await: the list is stored
\* (empty on failure), then loadVotingStatus is called for the same
\* proposal, whether or not the page is still mounted.
NavSuggestionsResponse(r, ok) ==
    LET next == [r EXCEPT !.kind = "status"] IN
    /\ r \in nav.requests
    /\ r.kind = "suggestions"
    /\ nav' = [nav EXCEPT
                 !.page.suggestions =
                     IF ~Delivered(r) THEN @ ELSE IF ok THEN r.pid ELSE NoProposal,
                 !.requests = (@ \ {r}) \cup {next}]
    /\ UNCHANGED <<sideVars, envVars, panelVars, pageVars, modalVars, posts>>

\* The page's loadVotingStatus after its await.
NavPageStatusResponse(r, ok, cooldown) ==
    LET vs == IF ok THEN [pid |-> r.pid, cooldown_active |-> cooldown] ELSE Null
        page1 == [nav.page EXCEPT !.votingStatus = vs]
        rerun == CooldownOf(nav.page.votingStatus) # CooldownOf(vs)
    IN
    /\ r \in nav.requests
    /\ r.kind = "status"
    /\ r.surface = "page"
    /\ nav' = IF ~Delivered(r) THEN [nav EXCEPT !.requests = @ \ {r}]
              ELSE [nav EXCEPT
                      !.page = [page1 EXCEPT !.timer = NavPageTimerEffect(rerun, page1)],
                      !.requests = @ \ {r}]
    /\ UNCHANGED <<sideVars, envVars, panelVars, pageVars, modalVars, posts>>

\* A request sent by a surface that may already be unmounted.
ReqFrom(mounted, kind, surface, pid) ==
    IF mounted THEN Req(kind, surface, pid)
    ELSE [kind |-> kind, surface |-> surface, pid |-> NoProposal, live |-> FALSE]

\* The page's cooldown timer fires (the browser fires whatever was not
\* cleared): loadVotingStatus for the proposal the effect closed over.
NavPageTimerFires ==
    /\ nav.page.timer.state = "armed"
    /\ Cardinality(nav.requests) < MaxNavRequests
    /\ nav' = [nav EXCEPT
                 !.page.timer = NoTimer,
                 !.requests = @ \cup {ReqFrom(nav.route # "gone", "status", "page",
                                              nav.page.timer.pid)}]
    /\ UNCHANGED <<sideVars, envVars, panelVars, pageVars, modalVars, posts>>

\* The panel's loadVotingStatus after its await, then its deadline and
\* cooldown effects (the panel's isExpired prop is false here).
NavPanelStatusResponse(r, ok, cooldown, active) ==
    LET p  == nav.panel
        vs == IF ok THEN [pid |-> r.pid, cooldown_active |-> cooldown,
                          is_active |-> active]
              ELSE Null
        dp == DeadlineEffect(vs, FALSE, p.deadlinePassed)
        rerun == <<CooldownOf(p.votingStatus), p.deadlinePassed>>
                   # <<CooldownOf(vs), dp>>
    IN
    /\ r \in nav.requests
    /\ r.kind = "status"
    /\ r.surface = "panel"
    /\ nav' = IF ~Delivered(r) THEN [nav EXCEPT !.requests = @ \ {r}]
              ELSE [nav EXCEPT
                      !.panel = [p EXCEPT
                                   !.votingStatus = vs,
                                   !.statusLoading = FALSE,
                                   !.deadlinePassed = dp,
                                   !.timer = IF ~rerun THEN @
                                             ELSE IF CooldownOf(vs) /\ ~dp
                                                  THEN ArmedFor(p.proposal)
                                                  ELSE NoTimer],
                      !.requests = @ \ {r}]
    /\ UNCHANGED <<sideVars, envVars, panelVars, pageVars, modalVars, posts>>

\* The panel's cooldown timer fires: loadVotingStatus of the render that
\* armed it, setStatusLoading(true) first.
NavPanelTimerFires ==
    /\ nav.panel.timer.state = "armed"
    /\ Cardinality(nav.requests) < MaxNavRequests
    /\ nav' = [nav EXCEPT
                 !.panel.timer = NoTimer,
                 !.panel.statusLoading = IF nav.panel.mounted THEN TRUE ELSE @,
                 !.requests = @ \cup {ReqFrom(nav.panel.mounted, "status", "panel",
                                              nav.panel.timer.pid)}]
    /\ UNCHANGED <<sideVars, envVars, panelVars, pageVars, modalVars, posts>>

\* The page has just been entered on some proposal; the single-proposal
\* variables are parked.
NavInit ==
    /\ \E p \in Proposals :
          nav = [route |-> p, page |-> FreshPage, panel |-> NoPanel,
                 requests |-> {Req("proposal", "page", p)}]
    /\ clientExpired = FALSE
    /\ srvExpired = FALSE
    /\ srvVote = 0
    /\ srvDeleg = NoUser
    /\ srvCooldown = FALSE
    /\ isExpired = FALSE
    /\ votingStatus = Null
    /\ statusLoading = TRUE
    /\ deadlinePassed = FALSE
    /\ panelTimer = FALSE
    /\ panelInFlight = 0
    /\ panelLatestPending = FALSE
    /\ panelSnapFromLatest = FALSE
    /\ pageStatus = Null
    /\ pageTimer = FALSE
    /\ pageInFlight = 0
    /\ votingActive = TRUE
    /\ applyingStates = [i \in SuggestionIds |-> FALSE]
    /\ showModal = [m \in Modals |-> FALSE]
    /\ submitting = [m \in Modals |-> FALSE]
    /\ posts = {}
    /\ SideIdle

NavNext ==
    \/ \E p \in Proposals : NavEnter(p)
    \/ \E p \in Proposals : NavNavigate(p)
    \/ NavLeave
    \/ \E r \in nav.requests, status \in {200, 404, 500} : NavProposalResponse(r, status)
    \/ \E r \in nav.requests, ok \in BOOLEAN : NavSuggestionsResponse(r, ok)
    \/ \E r \in nav.requests, ok \in BOOLEAN, cooldown \in BOOLEAN :
          NavPageStatusResponse(r, ok, cooldown)
    \/ NavPageTimerFires
    \/ \E r \in nav.requests, ok \in BOOLEAN, cooldown \in BOOLEAN, active \in BOOLEAN :
          NavPanelStatusResponse(r, ok, cooldown, active)
    \/ NavPanelTimerFires

NavSpec == NavInit /\ [][NavNext]_vars

\* ------------------------------------------- pure functions of the page

\* Longest suggestion list sorted.
MaxLen == 3

\* Creation times of suggestions are 0..MaxTime.
MaxTime == 2

\* Option numbers the functions and the forms are tried on are 1..MaxOption.
MaxOption == 2

\* 1000 * 60 * 60
HourMs == 3600000

\* Deadlines and clock readings (ms) around the classifier's thresholds.
Moments ==
    {0, 1, HourMs \div 2, HourMs, 24 * HourMs, 25 * HourMs - 1, 25 * HourMs,
     26 * HourMs, 48 * HourMs}

\* 1000 * 60
MinuteMs == 60000

\* 1000 * 60 * 60 * 24
DayMs == 86400000

Max(a, b) == IF a >= b THEN a ELSE b

\* "N unit(s) left"; "Voting has ended" has no count.
TimeText(n, unit, plural) == [n |-> n, unit |-> unit, plural |-> plural]

VotingHasEnded == TimeText(0, "ended", FALSE)

\* A variant of getTimeRemaining that shows the floored minutes as they are.
getTimeRemainingFloored(voting_deadline, now) ==
    LET diffMs == voting_deadline - now
        diffDays == diffMs \div DayMs
        diffHours == diffMs \div HourMs
        diffMinutes == diffMs \div MinuteMs
    IN  IF diffMs <= 0 THEN VotingHasEnded
        ELSE IF diffDays > 0 THEN TimeText(diffDays, "day", diffDays # 1)
        ELSE IF diffHours > 0 THEN TimeText(diffHours, "hour", diffHours # 1)
        ELSE TimeText(diffMinutes, "minute", diffMinutes # 1)

\* ProposalDetailPage.getTimeRemaining
getTimeRemaining(voting_deadline, now) ==
    LET diffMs == voting_deadline - now
        diffDays == diffMs \div DayMs
        diffHours == diffMs \div HourMs
        diffMinutes == diffMs \div MinuteMs
    IN  IF diffMs <= 0 THEN VotingHasEnded
        ELSE IF diffDays > 0 THEN TimeText(diffDays, "day", diffDays # 1)
        ELSE IF diffHours > 0 THEN TimeText(diffHours, "hour", diffHours # 1)
        ELSE TimeText(Max(1, diffMinutes), "minute", diffMinutes # 1)

\* A variant of canCreateSuggestions that is still true at exactly one hour.
canCreateSuggestionsInclusive(voting_deadline, now) ==
    voting_deadline >= now + 60 * 60 * 1000

\* ProposalDetailPage.canCreateSuggestions
canCreateSuggestions(voting_deadline, now) ==
    LET oneHourFromNow == now + 60 * 60 * 1000
    IN  voting_deadline > oneHourFromNow

\* A variant of getProposalStatus that still counts the deadline's own
\* millisecond as open.
getProposalStatusStrict(voting_deadline, now) ==
    LET diffMs == voting_deadline - now
        diffHours == diffMs \div HourMs
    IN  IF diffMs < 0 THEN "EXPIRED"
        ELSE IF diffHours <= 24 THEN "ENDING SOON"
        ELSE "ACTIVE"

\* ProposalDetailPage.getProposalStatus
getProposalStatus(voting_deadline, now) ==
    LET diffMs == voting_deadline - now
        diffHours == diffMs \div HourMs
    IN  IF diffMs <= 0 THEN "EXPIRED"
        ELSE IF diffHours <= 24 THEN "ENDING SOON"
        ELSE "ACTIVE"

\* Every user_status a response can carry; 0 and NoUser are the optional
\* fields voted_option and delegate_info left out.
UserStatuses ==
    [has_voted : BOOLEAN, voted_option : 0..MaxOption,
     has_delegated : BOOLEAN, delegate_info : {NoUser} \cup OrgUsers,
     cooldown_active : BOOLEAN]

\* Suggestions as the list's rows: type and creation time.
Rows == [suggestion_type : {"vote_option", "delegate"}, created_at : 0..MaxTime]

\* Vote suggestions and delegate suggestions, targets present or left out.
VoteSuggestions ==
    [suggestion_id : {"s1"}, suggestion_type : {"vote_option"},
     target_option_number : 0..MaxOption, target_user : {NoUser}]

DelegateSuggestions ==
    [suggestion_id : {"s2"}, suggestion_type : {"delegate"},
     target_option_number : {0}, target_user : {NoUser} \cup OrgUsers]

\* A variant of compareSuggestions that puts the oldest first.
compareSuggestionsOldestFirst(a, b) ==
    IF a.suggestion_type = "vote_option" /\ b.suggestion_type = "delegate" THEN -1
    ELSE IF a.suggestion_type = "delegate" /\ b.suggestion_type = "vote_option" THEN 1
    ELSE a.created_at - b.created_at

\* The comparator of sortedSuggestions: negative puts a first.
compareSuggestions(a, b) ==
    IF a.suggestion_type = "vote_option" /\ b.suggestion_type = "delegate" THEN -1
    ELSE IF a.suggestion_type = "delegate" /\ b.suggestion_type = "vote_option" THEN 1
    ELSE b.created_at - a.created_at

\* One element put into an already sorted list, behind the elements it
\* does not precede (Array.prototype.sort is stable).
RECURSIVE InsertSorted(_, _)
InsertSorted(x, sorted) ==
    IF sorted = <<>> THEN <<x>>
    ELSE IF compareSuggestions(x, Head(sorted)) < 0 THEN <<x>> \o sorted
    ELSE <<Head(sorted)>> \o InsertSorted(x, Tail(sorted))

\* [...suggestions].sort(comparator)
RECURSIVE sortedSuggestions(_)
sortedSuggestions(suggestions) ==
    IF suggestions = <<>> THEN <<>>
    ELSE InsertSorted(suggestions[Len(suggestions)],
                      sortedSuggestions(SubSeq(suggestions, 1, Len(suggestions) - 1)))

\* The body of a failed response: its error text and cooldown_seconds
\* (0: left out).
ErrorTexts == {"none", "Option", "Delegation not allowed", "other"}

Bodies == [error : ErrorTexts, cooldown_seconds : {0, 30}]

\* data.cooldown_seconds || 60
WaitOf(data) == IF data.cooldown_seconds = 0 THEN 60 ELSE data.cooldown_seconds

Alert(class, wait) == [class |-> class, wait |-> wait]

\* The alert of VoteModal.handleSubmit for a response that is not ok.
VoteModalAlert(status, data) ==
    IF status = Thrown THEN Alert("network", 0)
    ELSE IF status = 429 THEN Alert("rate_limited", WaitOf(data))
    ELSE IF status = 410 THEN Alert("voting_ended", 0)
    ELSE IF status = 400 /\ data.error = "Option" THEN Alert("invalid_option", 0)
    ELSE Alert("generic", 0)

\* The alert of DelegateModal.handleSubmit for a response that is not ok.
DelegateModalAlert(status, data) ==
    IF status = Thrown THEN Alert("network", 0)
    ELSE IF status = 429 THEN Alert("rate_limited", WaitOf(data))
    ELSE IF status = 400 /\ data.error = "Delegation not allowed"
         THEN Alert("delegation_not_permitted", 0)
    ELSE IF status = 410 THEN Alert("voting_ended", 0)
    ELSE IF status = 404 THEN Alert("target_not_found", 0)
    ELSE Alert("generic", 0)

\* The alert of handleApplySuggestion for a response that is not ok.
ApplyAlert(suggestion_type, status, data) ==
    IF status = Thrown THEN Alert("network", 0)
    ELSE IF suggestion_type = "delegate"
    THEN IF status = 429 THEN Alert("rate_limited", WaitOf(data))
         ELSE IF status = 400 /\ data.error = "Delegation not allowed"
              THEN Alert("delegation_not_permitted", 0)
         ELSE IF status = 410 THEN Alert("voting_ended", 0)
         ELSE Alert("generic", 0)
    ELSE IF status = 429 THEN Alert("rate_limited", WaitOf(data))
         ELSE IF status = 410 THEN Alert("voting_ended", 0)
         ELSE IF status = 400 /\ data.error = "Option" THEN Alert("invalid_option", 0)
         ELSE Alert("generic", 0)

\* The alert an entry point raises for a failed POST of the given kind.
AlertOf(entry, kind, status, data) ==
    IF entry = "apply"
    THEN ApplyAlert(IF kind = "delegate" THEN "delegate" ELSE "vote_option",
                    status, data)
    ELSE IF kind = "vote" THEN VoteModalAlert(status, data)
    ELSE DelegateModalAlert(status, data)

FailureStatuses == {400, 404, 410, 429, 500, Thrown}

Call(fn, args) == [fn |-> fn, args |-> args, done |-> FALSE, result |-> "pending"]

RECURSIVE SeqsUpTo(_, _)
SeqsUpTo(S, n) ==
    IF n = 0 THEN {<<>>}
    ELSE LET shorter == SeqsUpTo(S, n - 1)
         IN  shorter \cup { Append(q, x) : q \in shorter, x \in S }

\* One call of one of the functions, on any input.
EvalInit ==
    /\ eval \in
         { Call(fn, [voting_deadline |-> d, now |-> n]) :
             fn \in {"getProposalStatus", "getTimeRemaining", "canCreateSuggestions"},
             d \in Moments, n \in Moments }
         \cup { Call("isSuggestionApplied",
                     [suggestions |-> {v, g}, userVotingStatus |-> u]) :
                  v \in VoteSuggestions, g \in DelegateSuggestions,
                  u \in UserStatuses \cup {Null} }
         \cup { Call("sortedSuggestions", [suggestions |-> q]) :
                  q \in SeqsUpTo(Rows, MaxLen) }
         \cup { Call("alert", [entry |-> e, kind |-> k, status |-> st, data |-> b]) :
                  e \in {"modal", "apply"}, k \in {"vote", "delegate"},
                  st \in FailureStatuses, b \in Bodies }
    /\ form = "idle"
    /\ NavIdle
    /\ clientExpired = FALSE
    /\ srvExpired = FALSE
    /\ srvVote = 0
    /\ srvDeleg = NoUser
    /\ srvCooldown = FALSE
    /\ isExpired = FALSE
    /\ votingStatus = Null
    /\ statusLoading = TRUE
    /\ deadlinePassed = FALSE
    /\ panelTimer = FALSE
    /\ panelInFlight = 0
    /\ panelLatestPending = FALSE
    /\ panelSnapFromLatest = FALSE
    /\ pageStatus = Null
    /\ pageTimer = FALSE
    /\ pageInFlight = 0
    /\ votingActive = TRUE
    /\ applyingStates = [i \in SuggestionIds |-> FALSE]
    /\ showModal = [m \in Modals |-> FALSE]
    /\ submitting = [m \in Modals |-> FALSE]
    /\ posts = {}

Returns(fn, result) ==
    /\ eval.fn = fn
    /\ ~eval.done
    /\ eval' = [eval EXCEPT !.done = TRUE, !.result = result]
    /\ UNCHANGED <<form, navVars, envVars, panelVars, pageVars, modalVars, posts>>

\* The page renders: const status = getProposalStatus(proposal.voting_deadline)
EvalProposalStatus ==
    /\ eval.fn = "getProposalStatus"
    /\ Returns("getProposalStatus",
               getProposalStatus(eval.args.voting_deadline, eval.args.now))

\* The page renders the remaining time.
EvalTimeRemaining ==
    /\ eval.fn = "getTimeRemaining"
    /\ Returns("getTimeRemaining",
               getTimeRemaining(eval.args.voting_deadline, eval.args.now))

\* The page renders: canCreateSuggestions(proposal.voting_deadline)
EvalCanCreateSuggestions ==
    /\ eval.fn = "canCreateSuggestions"
    /\ Returns("canCreateSuggestions",
               canCreateSuggestions(eval.args.voting_deadline, eval.args.now))

\* SuggestionDisplay renders its rows: isApplied of each suggestion.
EvalIsSuggestionApplied ==
    /\ eval.fn = "isSuggestionApplied"
    /\ Returns("isSuggestionApplied",
               [s \in eval.args.suggestions |->
                  isSuggestionApplied(s, eval.args.userVotingStatus)])

\* SuggestionDisplay renders: the list in display order.
EvalSortedSuggestions ==
    /\ eval.fn = "sortedSuggestions"
    /\ Returns("sortedSuggestions", sortedSuggestions(eval.args.suggestions))

\* A handler's non-ok branch or catch block raises its alert.
EvalAlert ==
    /\ eval.fn = "alert"
    /\ Returns("alert", AlertOf(eval.args.entry, eval.args.kind,
                                eval.args.status, eval.args.data))

EvalNext ==
    \/ EvalProposalStatus
    \/ EvalTimeRemaining
    \/ EvalCanCreateSuggestions
    \/ EvalIsSuggestionApplied
    \/ EvalSortedSuggestions
    \/ EvalAlert

EvalSpec == EvalInit /\ [][EvalNext]_vars

\* ---------------------------------------------- the forms, from inside

\* One VotingPanel with its two modals and one SuggestionDisplay, looked at
\* for what the forms hold and send.  What the status snapshot allows is
\* left open: the buttons that open a modal or apply a suggestion are taken
\* to be enabled.  form is a record:
\*   options            option_number of each of proposal.options
\*   currentVote        user_status.selected_option.option_number, 0 if none
\*   currentDelegate    user_status.delegate_info.unique_id, NoUser if none
\*   modal              the modal shown, "none" if neither
\*   selectedOption     VoteModal state
\*   targetUser         DelegateModal state, "" when empty
\*   organizationUsers  DelegateModal state: unique_id of the users loaded
\*   loadingUsers       the users request is outstanding
\*   submitting         the shown modal's busy flag
\*   applyingStates     suggestion id -> Apply in progress
\*   sent               POSTs outstanding
\*   alert              class of the last alert raised, "none" if none
\*   onSuccessCalls     calls of onSuccess (handleModalSuccess) so far

\* Calls of onSuccess in one behaviour.
MaxSuccess == 1

\* What can be typed into the delegate form: nothing, a member's id, an id
\* that belongs to no member.
Targets == {""} \cup OrgUsers \cup {"zz"}

FormPost(entry, kind, opt, user) ==
    [entry |-> entry, kind |-> kind, option_number |-> opt, target_user |-> user]

\* DelegateModal.validation
validation(f) ==
    IF f.targetUser = "" THEN FALSE
    ELSE f.targetUser \in f.organizationUsers

\* The guard of VoteModal.handleSubmit.
CanSubmitVote(f) ==
    f.modal = "voteModal" /\ f.selectedOption # 0 /\ ~f.submitting

\* The guard of DelegateModal.handleSubmit.
CanSubmitDelegate(f) ==
    f.modal = "delegateModal" /\ validation(f) /\ ~f.submitting

\* The Apply button is not busy.
CanApply(f, s) == ~f.applyingStates[s.suggestion_id]

\* onClose: the panel unmounts the modal, whose state goes with it.
ModalClosed(f) ==
    [f EXCEPT !.modal = "none", !.selectedOption = 0, !.targetUser = "",
              !.organizationUsers = {}, !.loadingUsers = FALSE]

\* A variant of Finally that leaves the busy flag set.
FinallyStaysBusy(f, p) == f

\* The finally block of the handler that sent p.
Finally(f, p) ==
    IF p.entry \in Modals THEN [f EXCEPT !.submitting = FALSE]
    ELSE [f EXCEPT !.applyingStates[p.entry] = FALSE]

FormInit ==
    /\ \E opts \in SUBSET (1..MaxOption), u \in {NoUser} \cup OrgUsers :
         \E cv \in {0} \cup opts :
            form = [options |-> opts, currentVote |-> cv, currentDelegate |-> u,
                    modal |-> "none", selectedOption |-> 0, targetUser |-> "",
                    organizationUsers |-> {}, loadingUsers |-> FALSE,
                    submitting |-> FALSE,
                    applyingStates |-> [i \in SuggestionIds |-> FALSE],
                    sent |-> {}, alert |-> "none",
                    onSuccessCalls |-> 0]
    /\ eval = "idle"
    /\ NavIdle
    /\ clientExpired = FALSE
    /\ srvExpired = FALSE
    /\ srvVote = 0
    /\ srvDeleg = NoUser
    /\ srvCooldown = FALSE
    /\ isExpired = FALSE
    /\ votingStatus = Null
    /\ statusLoading = TRUE
    /\ deadlinePassed = FALSE
    /\ panelTimer = FALSE
    /\ panelInFlight = 0
    /\ panelLatestPending = FALSE
    /\ panelSnapFromLatest = FALSE
    /\ pageStatus = Null
    /\ pageTimer = FALSE
    /\ pageInFlight = 0
    /\ votingActive = TRUE
    /\ applyingStates = [i \in SuggestionIds |-> FALSE]
    /\ showModal = [m \in Modals |-> FALSE]
    /\ submitting = [m \in Modals |-> FALSE]
    /\ posts = {}

FormRest == UNCHANGED <<eval, navVars, envVars, panelVars, pageVars, modalVars, posts>>

\* handleVoteClick: a VoteModal mounts, selectedOption starting at
\* currentVote?.option_number || 1.
FormOpenVoteModal ==
    /\ form.modal = "none"
    /\ form' = [form EXCEPT
                  !.modal = "voteModal",
                  !.selectedOption = IF form.currentVote # 0 THEN form.currentVote ELSE 1,
                  !.submitting = FALSE]
    /\ FormRest

\* A radio button of one of proposal.options is chosen.
FormSelectOption(o) ==
    /\ form.modal = "voteModal"
    /\ ~form.submitting
    /\ o \in form.options
    /\ o # form.selectedOption
    /\ form' = [form EXCEPT !.selectedOption = o]
    /\ FormRest

\* VoteModal.handleSubmit up to its await.
FormSubmitVote ==
    /\ CanSubmitVote(form)
    /\ form.onSuccessCalls < MaxSuccess
    /\ form' = [form EXCEPT
                  !.submitting = TRUE,
                  !.sent = @ \cup {FormPost("voteModal", "vote",
                                            form.selectedOption, NoUser)}]
    /\ FormRest

\* handleDelegateClick: a DelegateModal mounts, targetUser starting at
\* currentDelegate?.unique_id || "", and its loadUsers effect runs.
FormOpenDelegateModal ==
    /\ form.modal = "none"
    /\ form' = [form EXCEPT
                  !.modal = "delegateModal",
                  !.targetUser = IF form.currentDelegate # NoUser
                                 THEN form.currentDelegate ELSE "",
                  !.organizationUsers = {},
                  !.loadingUsers = TRUE,
                  !.submitting = FALSE]
    /\ FormRest

\* loadUsers after its await: the organization's users, or none on failure.
FormUsersResponse(ok) ==
    /\ form.modal = "delegateModal"
    /\ form.loadingUsers
    /\ form' = [form EXCEPT
                  !.organizationUsers = IF ok THEN OrgUsers ELSE {},
                  !.loadingUsers = FALSE]
    /\ FormRest

\* handleInputChange / handleUserSelect.
FormInput(value) ==
    /\ form.modal = "delegateModal"
    /\ ~form.submitting
    /\ form.targetUser # value
    /\ form' = [form EXCEPT !.targetUser = value]
    /\ FormRest

\* DelegateModal.handleSubmit up to its await.
FormSubmitDelegate ==
    /\ CanSubmitDelegate(form)
    /\ form.onSuccessCalls < MaxSuccess
    /\ form' = [form EXCEPT
                  !.submitting = TRUE,
                  !.sent = @ \cup {FormPost("delegateModal", "delegate",
                                            0, form.targetUser)}]
    /\ FormRest

\* handleClose, then onClose (Cancel and the close button; not while
\* submitting).
FormClose ==
    /\ form.modal # "none"
    /\ ~form.submitting
    /\ form' = ModalClosed(form)
    /\ FormRest

\* handleApplySuggestion up to its await, for any suggestion the list may
\* show; a suggestion without its target throws at once, into the catch
\* and finally blocks.
FormApply(s) ==
    LET noTarget == IF s.suggestion_type = "delegate"
                    THEN s.target_user = NoUser
                    ELSE s.target_option_number = 0
        kind == IF s.suggestion_type = "delegate" THEN "delegate" ELSE "vote"
    IN
    /\ form.modal = "none"
    /\ CanApply(form, s)
    /\ form' = IF noTarget THEN [form EXCEPT !.alert = "network"]
               ELSE [form EXCEPT
                       !.applyingStates[s.suggestion_id] = TRUE,
                       !.sent = @ \cup {FormPost(s.suggestion_id, kind,
                                                 s.target_option_number,
                                                 s.target_user)}]
    /\ FormRest

\* A handler after its await.  A modal calls onSuccess and closes on
\* success; Apply raises an alert either way.
FormResponse(p, status, error) ==
    LET data == [error |-> error, cooldown_seconds |-> 0]
        entry == IF p.entry \in Modals THEN "modal" ELSE "apply"
        f1 == IF status = 200
              THEN IF entry = "modal"
                   THEN ModalClosed([form EXCEPT !.onSuccessCalls = @ + 1])
                   ELSE [form EXCEPT !.alert = "success"]
              ELSE [form EXCEPT
                      !.alert = AlertOf(entry, p.kind, status, data).class]
        f2 == Finally(f1, p)
    IN
    /\ p \in form.sent
    /\ form' = [f2 EXCEPT !.sent = @ \ {p}]
    /\ FormRest

FormNext ==
    \/ FormOpenVoteModal
    \/ \E o \in 1..MaxOption : FormSelectOption(o)
    \/ FormSubmitVote
    \/ FormOpenDelegateModal
    \/ \E ok \in BOOLEAN : FormUsersResponse(ok)
    \/ \E value \in Targets : FormInput(value)
    \/ FormSubmitDelegate
    \/ FormClose
    \/ \E s \in VoteSuggestions \cup DelegateSuggestions : FormApply(s)
    \/ \E p \in form.sent, status \in {200} \cup FailureStatuses :
          \E error \in IF status = 400 THEN ErrorTexts ELSE {"none"} :
             FormResponse(p, status, error)

FormSpec == FormInit /\ [][FormNext]_vars

\* -------------------------------------------------------------- properties

AnySuggestion ==
    [suggestion_id : SuggestionIds,
     suggestion_type : {"vote_option", "delegate"},
     target_option_number : 0..NumOptions,
     target_user : {NoUser} \cup OrgUsers]

Suggestion1 == CHOOSE s \in Suggestions : s.suggestion_id = "s1"

\* C1: once every status request of the voting panel has been answered, the
\* stored snapshot is the one written by the answer to the request that was
\* initiated last; an answer to an earlier request never replaces it.
C1_LastInitiatedWins == panelInFlight = 0 => panelSnapFromLatest

\* C2: at most one vote/delegate POST is in flight at any time, over the
\* vote modal, the delegate modal and Apply on any suggestion.
C2_AtMostOnePost == Cardinality(posts) <= 1

\* C3: every vote or delegate POST answered with success, from a modal or
\* from a suggestion's Apply, starts a status refresh of the voting panel
\* and (the status-changed notification) one of the page.
C3_SuccessRefreshes ==
    [][(\E p \in posts : PostResponse(p, 200))
         => /\ panelInFlight' = panelInFlight + 1
            /\ pageInFlight' = pageInFlight + 1]_vars

\* C4: on an open proposal, Apply on the vote_option suggestion for option 1
\* leads to that suggestion being shown as Applied with Apply disabled, as
\* long as the answer was 200 and the server still holds that vote.
C4_ApplyLeadsToApplied ==
    applyingStates["s1"]
      ~> (/\ ~applyingStates["s1"]
          /\ srvVote = 1 => /\ isSuggestionApplied(Suggestion1, pageStatus)
                            /\ ApplyDisabled(Suggestion1))

\* C5: when the vote modal's POST is answered 429, the vote and delegate
\* controls are disabled and the 61 s cooldown timer is armed.
C5_RateLimitedDisablesAndArms ==
    [][(\E p \in posts : p.ep = "voteModal" /\ PostResponse(p, 429))
         => /\ ~VoteControlEnabled'
            /\ ~DelegateControlEnabled'
            /\ panelTimer']_vars

\* The panel shows an open proposal with its controls held back by the
\* snapshot's cooldown.
PanelCooling ==
    /\ ~isExpired
    /\ ~deadlinePassed
    /\ CooldownOf(votingStatus)

\* C6: if from some point on the server reports no cooldown (and status
\* requests succeed, timers fire and requests are answered), a panel held
\* back by cooldown eventually has its controls enabled or is expired.
C6_CooldownEventuallyLifts ==
    <>[](~srvCooldown)
      => [](PanelCooling => <>(VoteControlEnabled \/ deadlinePassed \/ isExpired))

\* C7: while the page's status snapshot is unknown, isSuggestionApplied is
\* false for every suggestion of either type and every target.
C7_UnknownNeverApplied ==
    pageStatus = Null
      => \A s \in AnySuggestion : ~isSuggestionApplied(s, pageStatus)

\* C7 case: the snapshot is unknown and nothing is outstanding although the
\* server holds the very vote suggestion s1 proposes.
C7_Witness ==
    /\ pageStatus = Null
    /\ pageInFlight = 0
    /\ SuggestionPanelShown
    /\ srvVote = Suggestion1.target_option_number

\* C8: while the status snapshot is unknown no action control is enabled:
\* neither the panel's vote and delegate buttons nor any Apply button.
C8_UnknownDisablesAll ==
    /\ votingStatus = Null => ~VoteControlEnabled /\ ~DelegateControlEnabled
    /\ pageStatus = Null => \A s \in Suggestions : ~ApplyControlEnabled(s)

C10_ExpiredIsAbsorbing ==
    [][deadlinePassed
         => /\ deadlinePassed'
            /\ ~VoteControlEnabled'
            /\ ~DelegateControlEnabled']_vars

\* C11: no vote or delegate POST is dispatched at a moment when the
\* proposal is expired by the browser clock (deadline <= now), whatever the
\* entry point and whenever its modal was opened or its button rendered.
C11_NoPostWhenExpired ==
    [][posts' \ posts # {} => ~clientExpired]_vars

\* C12: whenever no status request is outstanding, the snapshot the voting
\* panel reads and the one the suggestion panel reads agree: both unknown,
\* or both known with the same user status (compared here on the field both
\* models carry, cooldown_active).
C12_SingleSnapshot ==
    (panelInFlight = 0 /\ pageInFlight = 0)
      => /\ (votingStatus = Null) <=> (pageStatus = Null)
         /\ CooldownOf(votingStatus) = CooldownOf(pageStatus)

\* C13: while the voting panel's controls and the suggestion panel are both
\* shown, a suggestion that is neither applied nor being applied has its
\* Apply control enabled exactly when the vote/delegate controls are.
C13_SurfacesAgree ==
    SuggestionPanelShown
      => \A s \in Suggestions :
            (~isSuggestionApplied(s, pageStatus) /\ ~applyingStates[s.suggestion_id])
              => (ApplyControlEnabled(s) <=> VoteControlEnabled)

\* C17: at most one cooldown timer is armed for the proposal at any time,
\* counting the voting panel's and the page's.
C17_AtMostOneTimer == ~(panelTimer /\ pageTimer)

\* C19: no cooldown timer fires, and so no timer-triggered refresh is issued,
\* once the proposal is expired by the browser clock or by the server.
C19_NoTimerFiresWhenExpired ==
    [][(PanelTimerFires \/ PageTimerFires) => (~clientExpired /\ ~srvExpired)]_vars

\* The panel treats the proposal as expired: by the isExpired prop (results
\* branch) or by its deadlinePassed verdict.
PanelExpired == isExpired \/ deadlinePassed

\* C16: a snapshot whose cooldown_active goes from false/unknown to true on
\* a proposal that is not expired arms the surface's 61 s timer; the timer
\* firing issues exactly one status refresh and disarms it; no timer is left
\* armed with cooldown_active false or unknown, and none is armed for a
\* proposal the surface holds expired.
C16_TimerFollowsCooldown ==
    [][/\ (~CooldownOf(votingStatus) /\ CooldownOf(votingStatus') /\ ~PanelExpired')
            => panelTimer'
       /\ (~CooldownOf(pageStatus) /\ CooldownOf(pageStatus') /\ ~clientExpired')
            => pageTimer'
       /\ PanelTimerFires => (~panelTimer' /\ panelInFlight' = panelInFlight + 1)
       /\ PageTimerFires => (~pageTimer' /\ pageInFlight' = pageInFlight + 1)
       /\ panelTimer' => CooldownOf(votingStatus')
       /\ pageTimer' => CooldownOf(pageStatus')
       /\ (~panelTimer /\ panelTimer') => ~PanelExpired'
       /\ (~pageTimer /\ pageTimer') => ~clientExpired']_vars

\* A known user status of a user who has neither voted nor delegated.
NotActed ==
    [cooldown_active : BOOLEAN, has_voted : {FALSE}, voted_option : {0},
     has_delegated : {FALSE}, delegate_info : {NoUser}]

\* C20: a status refresh answered 200 replaces the snapshot with the
\* response; one answered otherwise, or thrown, sets it to unknown whatever
\* it was; and unknown is told apart from a known "has not acted" status.
C20_RefreshReplacesOrClears ==
    /\ [][/\ \A latest \in BOOLEAN, o \in StatusOutcomes :
               PanelStatusResponse(latest, o)
                 => votingStatus' = IF o = 200
                                    THEN [is_active       |-> ~srvExpired,
                                          cooldown_active |-> srvCooldown]
                                    ELSE Null
          /\ \A o \in StatusOutcomes :
               PageStatusResponse(o)
                 => pageStatus' = IF o = 200
                                  THEN [has_voted       |-> srvVote # 0,
                                        voted_option    |-> srvVote,
                                        has_delegated   |-> srvDeleg # NoUser,
                                        delegate_info   |-> srvDeleg,
                                        cooldown_active |-> srvCooldown]
                                  ELSE Null]_vars
    /\ [](\A u \in NotActed :
             /\ Null # u
             /\ VotingStatusView(Null, FALSE) # VotingStatusView(u, FALSE))

\* C20 case: the panel's last refresh failed and left it unknown although
\* the page's snapshot knows the user's vote.
C20_Witness ==
    /\ votingStatus = Null
    /\ ~statusLoading
    /\ panelInFlight = 0
    /\ pageStatus # Null
    /\ pageStatus.has_voted

\* ------------------------------------------------- navigation and teardown

\* The proposal whose main view is on screen.
Displayed == nav.page.proposal

SnapshotFor(status, pid) == status = Null \/ status.pid = pid

\* C14: while the main view of a proposal is displayed, the page's status
\* snapshot, the suggestion list and the panel's snapshot were all obtained
\* from requests for that proposal.
C14_StateNeverCrossesProposals ==
    MainShown(nav.route, nav.page)
      => /\ SnapshotFor(nav.page.votingStatus, Displayed)
         /\ nav.page.suggestions \in {NoProposal, Displayed}
         /\ SnapshotFor(nav.panel.votingStatus, Displayed)

C18_TeardownCancelsTimer ==
    /\ [](/\ ~nav.panel.mounted => nav.panel.timer.state # "armed"
          /\ nav.route = "gone" => nav.page.timer.state # "armed")
    /\ [][NavPanelTimerFires => nav.panel.mounted]_vars
    /\ [][NavPageTimerFires => nav.route # "gone"]_vars

\* Both surfaces were unmounted with their timers armed.
C18_Witness ==
    /\ nav.route = "gone"
    /\ nav.panel.timer.state = "cleared"
    /\ nav.page.timer.state = "cleared"

\* ---------------------------------------------------------- pure functions

Evaluated(fn) == eval.fn = fn /\ eval.done

\* The class a failed POST of the given kind belongs to.
FailureClass(kind, status, data) ==
    IF status = Thrown THEN "network"
    ELSE IF status = 429 THEN "rate_limited"
    ELSE IF status = 410 THEN "voting_ended"
    ELSE IF status = 400 /\ kind = "delegate" /\ data.error = "Delegation not allowed"
         THEN "delegation_not_permitted"
    ELSE IF status = 400 /\ kind = "vote" /\ data.error = "Option"
         THEN "invalid_option"
    ELSE IF status = 404 /\ kind = "delegate" THEN "target_not_found"
    ELSE "generic"

\* C22: a failed submission gets the alert of its class (429 rate-limited
\* with the wait, 410 voting ended, 400 delegation not permitted or invalid
\* option, 404 on delegate target not found, otherwise generic, thrown
\* network), and the modal and the suggestion's Apply give the same class
\* to the same response.
C22_FailureClassified ==
    Evaluated("alert") =>
        LET a == eval.args IN
        /\ eval.result.class = FailureClass(a.kind, a.status, a.data)
        /\ \A e \in {"modal", "apply"} :
              AlertOf(e, a.kind, a.status, a.data).class = eval.result.class
        /\ (a.status = 429 /\ a.data.cooldown_seconds # 0)
              => eval.result.wait = a.data.cooldown_seconds

\* The reference predicate of "applied".
AppliedReference(s, status) ==
    IF s.suggestion_type = "vote_option"
    THEN status.has_voted /\ status.voted_option = s.target_option_number
    ELSE status.has_delegated /\ status.delegate_info = s.target_user

\* C25: for every suggestion and every known snapshot, optional fields
\* present or not, isSuggestionApplied equals the reference predicate, and
\* a snapshot changed in the flag or in the target it reports no longer
\* makes an applied suggestion applied.
C25_AppliedMatchesReference ==
    (Evaluated("isSuggestionApplied") /\ eval.args.userVotingStatus # Null) =>
        LET u == eval.args.userVotingStatus IN
        \A s \in eval.args.suggestions :
           /\ eval.result[s] = AppliedReference(s, u)
           /\ eval.result[s] =>
                 \A u2 \in UserStatuses :
                    (IF s.suggestion_type = "vote_option"
                     THEN u2.has_voted # u.has_voted \/ u2.voted_option # u.voted_option
                     ELSE u2.has_delegated # u.has_delegated
                          \/ u2.delegate_info # u.delegate_info)
                      => ~isSuggestionApplied(s, u2)

\* A suggestion whose target is present is shown as Applied.
C25_Witness ==
    /\ Evaluated("isSuggestionApplied")
    /\ eval.args.userVotingStatus # Null
    /\ \E s \in eval.args.suggestions :
          eval.result[s] /\ s.suggestion_type = "delegate" /\ s.target_user # NoUser

\* C26: whatever the snapshot says, a vote_option suggestion and a delegate
\* suggestion are never both shown as Applied.
C26_NeverBothApplied ==
    Evaluated("isSuggestionApplied") =>
        ~ \E v, g \in eval.args.suggestions :
             /\ v.suggestion_type = "vote_option"
             /\ g.suggestion_type = "delegate"
             /\ eval.result[v]
             /\ eval.result[g]

Count(q, x) == Cardinality({ i \in 1..Len(q) : q[i] = x })

\* C29: the displayed list is a permutation of the input, every
\* vote_option suggestion before every delegate suggestion, and within a
\* type the newer suggestion first.
C29_SortedSuggestions ==
    Evaluated("sortedSuggestions") =>
        LET in  == eval.args.suggestions
            out == eval.result
        IN
        /\ Len(out) = Len(in)
        /\ \A x \in Rows : Count(out, x) = Count(in, x)
        /\ \A i, j \in 1..Len(out) :
              i < j =>
                /\ ~(out[i].suggestion_type = "delegate"
                     /\ out[j].suggestion_type = "vote_option")
                /\ out[i].suggestion_type = out[j].suggestion_type
                      => out[i].created_at >= out[j].created_at

\* A list of both types, given oldest delegate first, was sorted.
C29_Witness ==
    /\ Evaluated("sortedSuggestions")
    /\ Len(eval.args.suggestions) = MaxLen
    /\ eval.args.suggestions[1].suggestion_type = "delegate"
    /\ eval.args.suggestions[MaxLen].suggestion_type = "vote_option"
    /\ eval.args.suggestions[1].created_at < eval.args.suggestions[2].created_at
    /\ eval.result # eval.args.suggestions

\* C30: the classifier says EXPIRED exactly when the deadline is not after
\* the current time.
C30_ExpiredIffDeadlinePassed ==
    Evaluated("getProposalStatus") =>
        ((eval.result = "EXPIRED") <=> (eval.args.voting_deadline <= eval.args.now))

\* The classifier was asked at the very moment of the deadline.
C30_Witness ==
    /\ Evaluated("getProposalStatus")
    /\ eval.args.voting_deadline = eval.args.now
    /\ eval.result = "EXPIRED"

\* The time left to the deadline of the call, in ms.
Remaining == eval.args.voting_deadline - eval.args.now

\* C31: a deadline from 1 hour to 24 hours ahead (inclusive) is classified
\* ENDING SOON, a deadline more than 24 hours ahead, by any amount, ACTIVE.
C31_EndingSoonWithin24h ==
    Evaluated("getProposalStatus") =>
        /\ (HourMs <= Remaining /\ Remaining <= 24 * HourMs)
              => eval.result = "ENDING SOON"
        /\ Remaining > 24 * HourMs => eval.result = "ACTIVE"

\* C32: a deadline ahead by less than 1 hour is classified ACTIVE.
C32_ActiveBelowOneHour ==
    Evaluated("getProposalStatus") =>
        ((0 < Remaining /\ Remaining < HourMs) => eval.result = "ACTIVE")

\* C33: the text is "Voting has ended" exactly when the classifier says
\* EXPIRED; otherwise it is a count of at least 1 in one unit: whole days
\* if a full day remains, else whole hours if a full hour remains, else
\* whole minutes, floored and not below 1.
C33_TimeRemainingText ==
    Evaluated("getTimeRemaining") =>
        LET r == eval.result IN
        /\ (r = VotingHasEnded)
              <=> getProposalStatus(eval.args.voting_deadline, eval.args.now) = "EXPIRED"
        /\ r # VotingHasEnded =>
              /\ r.n >= 1
              /\ IF Remaining >= DayMs
                 THEN r.unit = "day" /\ r.n * DayMs <= Remaining
                      /\ Remaining < (r.n + 1) * DayMs
                 ELSE IF Remaining >= HourMs
                 THEN r.unit = "hour" /\ r.n * HourMs <= Remaining
                      /\ Remaining < (r.n + 1) * HourMs
                 ELSE /\ r.unit = "minute"
                      /\ IF Remaining < MinuteMs THEN r.n = 1
                         ELSE r.n * MinuteMs <= Remaining
                              /\ Remaining < (r.n + 1) * MinuteMs

\* One millisecond is left: the text says 1 minute.
C33_Witness ==
    /\ Evaluated("getTimeRemaining")
    /\ Remaining = 1
    /\ eval.result.n = 1
    /\ eval.result.unit = "minute"

\* C34: canCreateSuggestions is true exactly when the deadline is more
\* than 60 minutes after now (false at exactly 60 minutes), and when it is
\* true the classifier does not say EXPIRED.
C34_SuggestionsCloseOneHourBefore ==
    Evaluated("canCreateSuggestions") =>
        /\ eval.result <=> Remaining > 60 * MinuteMs
        /\ eval.result
              => getProposalStatus(eval.args.voting_deadline, eval.args.now) # "EXPIRED"

\* Exactly 60 minutes are left: suggestions can no longer be created.
C34_Witness ==
    /\ Evaluated("canCreateSuggestions")
    /\ Remaining = HourMs
    /\ ~eval.result

\* C35: whenever the proposal is expired (by the isExpired input or by the
\* panel's own verdict from the snapshot), the panel renders no vote or
\* delegate control and no modal, shows the results if vote_results is
\* present and the results-pending placeholder otherwise, and shows the
\* user's participation status.
C35_ExpiredPanelReadOnly ==
    (isExpired \/ deadlinePassed)
      => /\ ~PanelControlsRendered
         /\ NoModal
         /\ ResultsView(TRUE) = "results"
         /\ ResultsView(FALSE) = "results_pending"
         /\ ParticipationRendered

\* C36: the stored snapshot, and with it the client's cooldown_active,
\* changes only in the step in which a status response is taken (panel and
\* page each for its own store); a timer firing, an answer to a submission
\* (429 included) and the clocks leave it as it is.
C36_CooldownOnlyServerReported ==
    [][/\ votingStatus' # votingStatus => panelInFlight' = panelInFlight - 1
       /\ pageStatus' # pageStatus => pageInFlight' = pageInFlight - 1]_vars

\* C36 case: the panel's timer has fired and its refresh is outstanding;
\* the stored cooldown_active is still true.
C36_Witness ==
    /\ CooldownOf(votingStatus)
    /\ ~deadlinePassed
    /\ ~panelTimer
    /\ panelInFlight > 0

\* C37: with a snapshot present, the panel's expired verdict is the
\* negation of the snapshot's is_active whatever isExpired is; with the
\* snapshot unknown, isExpired makes the verdict true.
C37_VerdictFollowsSnapshot ==
    /\ votingStatus # Null => deadlinePassed = ~votingStatus.is_active
    /\ (votingStatus = Null /\ isExpired) => deadlinePassed

\* C37 case: the page's classifier says expired, the snapshot says active,
\* and the panel's verdict is not expired.
C37_Witness ==
    /\ votingStatus # Null
    /\ votingStatus.is_active
    /\ isExpired
    /\ ~deadlinePassed

\* C38: the panel's statusLoading is true exactly while at least one of its
\* status requests is outstanding.
C38_LoadingIffOutstanding ==
    statusLoading <=> panelInFlight > 0

\* No loadProposal of the mounted page is waiting for its answer.
NoLoadOutstanding(requests) ==
    \A r \in requests : ~(r.kind = "proposal" /\ r.live)

\* The page displays the proposal of the current route in its main view.
DisplaysRoute(route, page) ==
    MainShown(route, page) /\ page.proposal = route

\* C39: when the answer that leaves no proposal load outstanding is taken,
\* then (a) if it is the successful answer to the load of the current
\* route, or (b) if the load of the current route had already succeeded and
\* its proposal was displayed, the page displays the proposal of the
\* current route: not the Not Found or error view of an earlier id, not an
\* earlier id's proposal.
C39_LatestLoadDisplayed ==
    [][\A r \in nav.requests :
          ( /\ r.kind = "proposal"
            /\ r.live
            /\ NoLoadOutstanding(nav'.requests)
            /\ \/ r.pid = nav.route /\ NavProposalResponse(r, 200)
               \/ /\ DisplaysRoute(nav.route, nav.page)
                  /\ \E status \in {200, 404, 500} : NavProposalResponse(r, status) )
          => DisplaysRoute(nav'.route, nav'.page)]_vars

\* ----------------------------------------------------- the Apply control

C24_AppliedStaysDisabled ==
    [][\A s \in Suggestions :
          (/\ SuggestionPanelShown
           /\ isSuggestionApplied(s, pageStatus)
           /\ isSuggestionApplied(s, UserStatusOf(ServerStatus))
           /\ srvVote' = srvVote
           /\ srvDeleg' = srvDeleg)
            => ~ApplyControlEnabled(s)']_vars

\* ---------------------------------------------------------------- the forms

C27_VoteForExistingOption ==
    \A p \in form.sent : p.kind = "vote" => p.option_number \in form.options

\* C28: with a non-empty target in the delegate form, the submission is
\* dispatched, whatever the organization user list holds.
C28_UserListNeverBlocks ==
    (/\ form.modal = "delegateModal"
     /\ ~form.submitting
     /\ form.targetUser # ""
     /\ form.onSuccessCalls < MaxSuccess)
      => CanSubmitDelegate(form)

====
